---- MODULE Spec2Model ----
(***************************************************************************)
(* The ingestion pipeline of rag/ingest.py with the embedding client of    *)
(* rag/embeddings.py: load_csv_records, the batch loop of ingest,          *)
(* build_pinecone_datapoints and upload_to_pinecone, as one sequential     *)
(* state machine.  The hosted services (embedding inference, vector store) *)
(* and the filesystem are the environment: their answers are inputs.       *)
(***************************************************************************)
EXTENDS Integers, Sequences, FiniteSets, TLC

\* ------------------------------------------------------------------ bounds
\* Rows of the registry CSV file on disk (more than the head() window).
MaxRegRows == 11
\* CSV files returned by the directory glob, and rows of each of them.
MaxGlobFiles == 1
MaxGlobRows == 2
\* Body lengths 0..MaxShort and MAX_BODY_CHARS-MaxShort..MAX_BODY_CHARS+MaxOver.
MaxShort == 3
MaxOver == 3
\* Number of character patterns a body is drawn from.
MaxPattern == 4

\* ------------------------------------------------------- program constants
MAX_BODY_CHARS == 2000
BATCH_SIZE == 10
HEAD_ROWS == 10
chunk_size == 100

DATASET_DIR == "../datasets"
PINECONE_INDEX_NAME == "fraud-email-index"
\* The registry: one active entry (the others are commented out in the source).
DATASET_REGISTRY ==
    << [name |-> "nigerian_fraud", model |-> "NigerianFraudDataset",
        path |-> [dir |-> "datasets", file |-> "nigerian_fraud.csv"]] >>

\* ------------------------------------------------------------ Python values
\* An optional string: None, or a sequence of characters.
PyNone == [none |-> TRUE, chars |-> <<>>]
Str(s) == [none |-> FALSE, chars |-> s]
\* A missing CSV cell as pandas reads it.
NaN == <<"NaN">>
NoLabel == "<None>"

Alphabet == <<"a", "b", "c", "d", "e", "f", "g", "h">>

\* The text of n characters of pattern p (no whitespace, no line breaks).
Text(n, p) == [i \in 1..n |-> Alphabet[((i + p) % Len(Alphabet)) + 1]]

\* The body a body descriptor stands for.
BodyOf(d) == IF d.none THEN PyNone ELSE Str(Text(d.len, d.pat))

Min(a, b) == IF a < b THEN a ELSE b

\* ------------------------------------------------------------------- state
VARIABLES
    pc,              \* position of the run of ingest()
    disk,            \* the files on disk: the input of the run
    docs,            \* rows of the file being loaded, still to be constructed
    globIdx,         \* number of glob results already iterated
    validated,       \* load_csv_records: the list of validated records
    warnings,        \* the "[WARN] Skipping invalid ..." lines printed, in order
    attempted,       \* rows whose record construction was attempted, in order
    embedder,        \* whether EmbeddingEngine() was constructed
    start,           \* loop variable of the batch loop
    all_embeddings,  \* the running list of vectors
    embedLog,        \* one entry per call of embedder.embed
    ingestLog,       \* the "received no embeddings" warnings of ingest()
    datapoints,      \* result of build_pinecone_datapoints
    nextId,          \* number of ids uuid4() has generated
    store,           \* calls made on the vector store
    error,           \* the unhandled exception that ended the run, if any
    body,            \* _prepare_text alone: the record's body
    text,            \* _prepare_text alone: the text prepared from body
    text2,           \* _prepare_text alone: the text prepared from text
    tpc              \* _prepare_text alone: position

vars == << pc, disk, docs, globIdx, validated, warnings, attempted, embedder,
           start, all_embeddings, embedLog, ingestLog, datapoints, nextId,
           store, error, body, text, text2, tpc >>

loadVars == << docs, globIdx, validated, warnings, attempted >>
embedVars == << embedder, start, all_embeddings, embedLog, ingestLog >>
uploadVars == << datapoints, nextId, store >>
textVars == << body, text, text2, tpc >>

\* ------------------------------------------------------------ _prepare_text
\* body[:n]
Prefix(s, n) == SubSeq(s, 1, Min(n, Len(s)))

\* record.body or ""
BodyOrEmpty(b) == IF b.none \/ Len(b.chars) = 0 THEN <<>> ELSE b.chars

PrepareTextOverlong(b) ==
    LET s == BodyOrEmpty(b)
    IN  IF Len(s) > MAX_BODY_CHARS THEN Prefix(s, MAX_BODY_CHARS + 1) ELSE s

_prepare_text(b) ==
    LET s == BodyOrEmpty(b)
    IN  IF Len(s) > MAX_BODY_CHARS THEN Prefix(s, MAX_BODY_CHARS) ELSE s

\* ----------------------------------------------------------------- inputs
BodyLens == (0..MaxShort) \cup ((MAX_BODY_CHARS - MaxShort)..(MAX_BODY_CHARS + MaxOver))

Bodies == {PyNone} \cup { Str(Text(n, p)) : n \in BodyLens, p \in 1..MaxPattern }

\* Body descriptors of the rows on disk: None, "", one character, two chunks,
\* and longer than MAX_BODY_CHARS.
BodyDescs ==
    {[none |-> TRUE, len |-> 0, pat |-> 1]} \cup
    { [none |-> FALSE, len |-> n, pat |-> 1] :
        n \in {0, 1, chunk_size + 1, MAX_BODY_CHARS + 1} }

\* The bodies of the even rows: "", one character, longer than MAX_BODY_CHARS.
EvenBodyDescs == { b \in BodyDescs : ~b.none /\ b.len # chunk_size + 1 }

\* Which rows of a file have a missing required cell.
NanPatterns == {"none", "first", "even", "all"}

Disks ==
    { [regExists |-> e, regRows |-> n, globFiles |-> g, globRows |-> m,
       nan |-> p, bodyOdd |-> bo, bodyEven |-> be] :
        e \in BOOLEAN, n \in 0..MaxRegRows, g \in 0..MaxGlobFiles,
        m \in 0..MaxGlobRows, p \in NanPatterns,
        bo \in BodyDescs, be \in EvenBodyDescs }

\* One description per distinct directory content.
WellFormedDisk(d) ==
    /\ (~d.regExists => d.regRows = 0)
    /\ (d.globFiles = 0 => d.globRows = 0)
    /\ (d.regRows = 0 /\ d.globRows = 0 =>
            d.nan = "none" /\ d.bodyOdd.none /\ d.bodyEven.len = 0)

HasNaN(d, i) ==
    \/ d.nan = "all"
    \/ d.nan = "first" /\ i = 1
    \/ d.nan = "even" /\ i % 2 = 0

RowId(f, i) == [file |-> f, row |-> i]

\* Row i of file f as a dict of its cells (file 0 is the registry file).
\* src names the row; it is carried along so that a record, a warning or a
\* vector can be traced to the row it came from, and is no cell of the file.
RowDict(d, f, i) ==
    [src      |-> RowId(f, i),
     sender   |-> IF HasNaN(d, i) THEN NaN ELSE <<"sender", f, i>>,
     receiver |-> <<"receiver", f, i>>,
     subject  |-> <<"subject", f, i>>,
     body     |-> IF i % 2 = 1 THEN d.bodyOdd ELSE d.bodyEven,
     urls     |-> <<>>,
     label    |-> IF i % 3 = 0 THEN NoLabel ELSE "fraud"]

\* df.head(10).to_dict(orient='records')
HeadRecords(d) ==
    [i \in 1..Min(d.regRows, HEAD_ROWS) |-> RowDict(d, 0, i)]

\* The paths Path(DATASET_DIR).glob("*.csv") yields.
GlobNames == <<"nigerian_fraud.csv", "ling_spam.csv", "spam_assassin.csv">>
GlobPath(f) == [dir |-> DATASET_DIR, file |-> GlobNames[f]]

\* any(cfg["path"] == str(file) for cfg in DATASET_REGISTRY.values())
ClaimedByRegistry(path) ==
    \E k \in 1..Len(DATASET_REGISTRY) : DATASET_REGISTRY[k].path = path

\* CSVLoader(str(file)).load(): one Document per row; its metadata names the
\* file and the row number, its page_content holds the cells.
CSVLoaderLoad(d, f) ==
    [i \in 1..d.globRows |->
        [page_content |-> RowDict(d, f, i),
         metadata |-> [src |-> RowId(f, i), source |-> GlobPath(f), row |-> i - 1]]]

\* ------------------------------------------------------------ the schemas
RequiredFields == {"sender", "receiver", "subject", "body", "urls"}

\* Whether model(**doc) constructs a record (else it raises).
Validates(doc) ==
    /\ RequiredFields \subseteq DOMAIN doc
    /\ \A k \in {"sender", "receiver", "subject"} : doc[k] # NaN

\* The record model(**doc) constructs.
Construct(doc) ==
    [src |-> doc.src, sender |-> doc.sender, receiver |-> doc.receiver,
     subject |-> doc.subject, body |-> doc.body, urls |-> doc.urls,
     label |-> IF "label" \in DOMAIN doc THEN doc.label ELSE NoLabel]

\* ------------------------------------------------------- load_csv_records
\* print(f"[WARN] Skipping invalid row in {name}: {e}")
SkipWarningDropped(log, name, src) == log

SkipWarning(log, name, src) == Append(log, [name |-> name, src |-> src])

\* try: validated.append(model(**doc)) / except: print the warning
\* The pair of lists after one row.
PartialRecord(doc) ==
    [src |-> doc.src, sender |-> NaN, receiver |-> NaN, subject |-> NaN,
     body |-> [none |-> TRUE, len |-> 0, pat |-> 1], urls |-> <<>>,
     label |-> NoLabel]

TryAppendKeepsInvalid(vals, log, name, doc) ==
    IF Validates(doc)
    THEN [validated |-> Append(vals, Construct(doc)), warnings |-> log]
    ELSE [validated |-> Append(vals, PartialRecord(doc)),
          warnings |-> SkipWarning(log, name, doc.src)]

TryAppend(vals, log, name, doc) ==
    IF Validates(doc)
    THEN [validated |-> Append(vals, Construct(doc)), warnings |-> log]
    ELSE [validated |-> vals, warnings |-> SkipWarning(log, name, doc.src)]

\* for name, cfg in DATASET_REGISTRY.items(): the file is read when it exists.
LoadRegistry ==
    /\ pc = "registry"
    /\ LET rows == IF disk.regExists THEN HeadRecords(disk) ELSE <<>>
       IN  /\ docs' = rows
           /\ pc' = IF Len(rows) > 0 THEN "registry_rows" ELSE "glob"
    /\ UNCHANGED << disk, globIdx, validated, warnings, attempted, error >>
    /\ UNCHANGED << embedVars, uploadVars, textVars >>

\* for doc in docs: one row of the registry file.
RegistryRow ==
    /\ pc = "registry_rows"
    /\ Len(docs) > 0
    /\ LET doc == Head(docs)
           r == TryAppend(validated, warnings, DATASET_REGISTRY[1].name, doc)
       IN  /\ validated' = r.validated
           /\ warnings' = r.warnings
           /\ attempted' = Append(attempted, doc.src)
    /\ docs' = Tail(docs)
    /\ pc' = IF Len(docs) > 1 THEN "registry_rows" ELSE "glob"
    /\ UNCHANGED << disk, globIdx, error >>
    /\ UNCHANGED << embedVars, uploadVars, textVars >>

\* for file in dataset_path.glob("*.csv"): the next file, or the return.
GlobNext ==
    /\ pc = "glob"
    /\ IF globIdx < disk.globFiles
       THEN LET f == globIdx + 1
                rows == IF ClaimedByRegistry(GlobPath(f))
                        THEN <<>> ELSE CSVLoaderLoad(disk, f)
            IN  /\ globIdx' = f
                /\ docs' = rows
                /\ pc' = IF Len(rows) > 0 THEN "generic_rows" ELSE "glob"
       ELSE /\ pc' = "loaded"
            /\ UNCHANGED << globIdx, docs >>
    /\ UNCHANGED << disk, validated, warnings, attempted, error >>
    /\ UNCHANGED << embedVars, uploadVars, textVars >>

\* for doc in docs: row = doc.metadata; one row of a generic file.
GenericRow ==
    /\ pc = "generic_rows"
    /\ Len(docs) > 0
    /\ LET row == Head(docs).metadata
           r == TryAppend(validated, warnings, "generic", row)
       IN  /\ validated' = r.validated
           /\ warnings' = r.warnings
           /\ attempted' = Append(attempted, row.src)
    /\ docs' = Tail(docs)
    /\ pc' = IF Len(docs) > 1 THEN "generic_rows" ELSE "glob"
    /\ UNCHANGED << disk, globIdx, error >>
    /\ UNCHANGED << embedVars, uploadVars, textVars >>

\* ------------------------------------------------------------------ ingest
\* if not records: return
CheckRecordsAlwaysEmbeds ==
    /\ pc = "loaded"
    /\ pc' = "construct"
    /\ UNCHANGED << disk, error >>
    /\ UNCHANGED << loadVars, embedVars, uploadVars, textVars >>

CheckRecords ==
    /\ pc = "loaded"
    /\ pc' = IF Len(validated) = 0 THEN "done" ELSE "construct"
    /\ UNCHANGED << disk, error >>
    /\ UNCHANGED << loadVars, embedVars, uploadVars, textVars >>

\* embedder = EmbeddingEngine(): raises ValueError when the key is not set.
ConstructEmbedder ==
    /\ pc = "construct"
    /\ \E keySet \in BOOLEAN :
        IF keySet
        THEN /\ embedder' = TRUE
             /\ pc' = "batch"
             /\ UNCHANGED error
        ELSE /\ pc' = "aborted"
             /\ error' = [type |-> "ValueError", at |-> "EmbeddingEngine"]
             /\ UNCHANGED embedder
    /\ UNCHANGED << disk, start, all_embeddings, embedLog, ingestLog >>
    /\ UNCHANGED << loadVars, uploadVars, textVars >>

\* RecursiveCharacterTextSplitter(chunk_size=100, chunk_overlap=0).split_text:
\* a text without separators is cut every chunk_size characters; an empty
\* text has no chunk.
split_text(t) ==
    [k \in 1..((Len(t) + chunk_size - 1) \div chunk_size) |->
        SubSeq(t, (k - 1) * chunk_size + 1, Min(k * chunk_size, Len(t)))]

\* The vector the embedding service computes for a text.
Embedding(t) == << Len(t), t[1], t[Len(t)] >>

\* PineconeEmbeddingEngine.embed(texts), the service answering svc.
\* "ok": response.data, one vector per input.  "fail": the except branch
\* prints texts[0], which raises IndexError on an empty list, then the
\* function ends without a return statement (None).
embed(texts, svc) ==
    IF svc = "ok"
    THEN [raised |-> FALSE, none |-> FALSE,
          data |-> [j \in 1..Len(texts) |-> [values |-> Embedding(texts[j])]]]
    ELSE IF Len(texts) = 0
         THEN [raised |-> TRUE, none |-> FALSE, data |-> <<>>]
         ELSE [raised |-> FALSE, none |-> TRUE, data |-> <<>>]

\* records[start:start + BATCH_SIZE], as positions in records
BatchRange(s, n) == (s + 1)..Min(s + BATCH_SIZE, n)

\* One iteration of: for start in range(0, len(records), BATCH_SIZE)
EmbedBatch ==
    /\ pc = "batch"
    /\ start < Len(validated)
    /\ \E svc \in {"ok", "fail"} :
        LET batch_records == [k \in 1..Cardinality(BatchRange(start, Len(validated)))
                                |-> validated[start + k]]
            batch_texts == [k \in 1..Len(batch_records)
                                |-> _prepare_text(BodyOf(batch_records[k].body))]
            texts == split_text(batch_texts[1])
            res == embed(texts, svc)
            next == start + BATCH_SIZE
            entry == [start |-> start, texts |-> Len(texts), svc |-> svc,
                      raised |-> res.raised]
            more == IF next < Len(validated) THEN "batch" ELSE "build"
        IN  IF Len(batch_texts) = 0
            THEN \* if not batch_texts: continue
                 /\ start' = next
                 /\ pc' = more
                 /\ UNCHANGED << all_embeddings, embedLog, ingestLog, error >>
            ELSE /\ embedLog' = Append(embedLog, entry)
                 /\ IF res.raised
                    THEN /\ pc' = "aborted"
                         /\ error' = [type |-> "IndexError", at |-> "embed"]
                         /\ UNCHANGED << start, all_embeddings, ingestLog >>
                    ELSE /\ IF res.none \/ Len(res.data) = 0
                            THEN \* if not batch_embeddings: warn, continue
                                 /\ ingestLog' = Append(ingestLog, start)
                                 /\ UNCHANGED all_embeddings
                            ELSE /\ all_embeddings' = all_embeddings \o
                                        [j \in 1..Len(res.data) |->
                                            [values |-> res.data[j].values,
                                             src |-> [record |-> start + 1,
                                                      chunk |-> j]]]
                                 /\ UNCHANGED ingestLog
                         /\ start' = next
                         /\ pc' = more
                         /\ UNCHANGED error
    /\ UNCHANGED << disk, embedder >>
    /\ UNCHANGED << loadVars, uploadVars, textVars >>

\* record.label or ""
LabelOrEmpty(l) == IF l = NoLabel THEN "" ELSE l

\* The metadata dict of a datapoint.
Metadata(record) ==
    [sender |-> record.sender, receiver |-> record.receiver,
     subject |-> record.subject, body |-> record.body, urls |-> record.urls,
     label |-> LabelOrEmpty(record.label)]

\* str(uuid.uuid4()): the n-th id generated.
Uuid4(n) == << "uuid", n >>

\* for record, vector in zip(records, embeddings): one datapoint per pair.
\* src is the vector's provenance (the text it was computed from), kept beside
\* the values.
build_pinecone_datapoints(records, embeddings, ids) ==
    [k \in 1..Min(Len(records), Len(embeddings)) |->
        [id |-> Uuid4(ids + k),
         values |-> embeddings[k].values,
         metadata |-> Metadata(records[k]),
         src |-> embeddings[k].src]]

BuildDatapoints ==
    /\ pc = "build"
    /\ datapoints' = build_pinecone_datapoints(validated, all_embeddings, nextId)
    /\ nextId' = nextId + Len(datapoints')
    /\ pc' = "has_index"
    /\ UNCHANGED << disk, store, error >>
    /\ UNCHANGED << loadVars, embedVars, textVars >>

\* ------------------------------------------------------ upload_to_pinecone
\* if not pc.has_index(PINECONE_INDEX_NAME):
HasIndexInverted ==
    /\ pc = "has_index"
    /\ \E exists \in BOOLEAN :
        /\ store' = [store EXCEPT !.has_index = Append(@, exists)]
        /\ pc' = IF exists THEN "create_index" ELSE "upsert"
    /\ UNCHANGED << disk, datapoints, nextId, error >>
    /\ UNCHANGED << loadVars, embedVars, textVars >>

HasIndex ==
    /\ pc = "has_index"
    /\ \E exists \in BOOLEAN :
        /\ store' = [store EXCEPT !.has_index = Append(@, exists)]
        /\ pc' = IF exists THEN "upsert" ELSE "create_index"
    /\ UNCHANGED << disk, datapoints, nextId, error >>
    /\ UNCHANGED << loadVars, embedVars, textVars >>

\* pc.create_index(name, dimension=len(datapoints[0]["values"]), ...):
\* the argument raises IndexError on an empty list, before the call.
CreateIndex ==
    /\ pc = "create_index"
    /\ IF Len(datapoints) = 0
       THEN /\ pc' = "aborted"
            /\ error' = [type |-> "IndexError", at |-> "create_index"]
            /\ UNCHANGED store
       ELSE \E accepted \in BOOLEAN :
            /\ store' = [store EXCEPT !.create_index =
                            Append(@, [name |-> PINECONE_INDEX_NAME,
                                       dimension |-> Len(datapoints[1].values)])]
            /\ IF accepted
               THEN pc' = "upsert" /\ UNCHANGED error
               ELSE /\ pc' = "aborted"
                    /\ error' = [type |-> "PineconeException", at |-> "create_index"]
    /\ UNCHANGED << disk, datapoints, nextId >>
    /\ UNCHANGED << loadVars, embedVars, textVars >>

\* index.upsert(vectors=datapoints)
Upsert ==
    /\ pc = "upsert"
    /\ \E accepted \in BOOLEAN :
        /\ store' = [store EXCEPT !.upsert = Append(@, datapoints)]
        /\ IF accepted
           THEN pc' = "done" /\ UNCHANGED error
           ELSE /\ pc' = "aborted"
                /\ error' = [type |-> "PineconeException", at |-> "upsert"]
    /\ UNCHANGED << disk, datapoints, nextId >>
    /\ UNCHANGED << loadVars, embedVars, textVars >>

\* --------------------------------------------------------- specifications
NoError == [type |-> "None", at |-> "None"]

Init ==
    /\ pc = "registry"
    /\ disk \in { d \in Disks : WellFormedDisk(d) }
    /\ docs = <<>>
    /\ globIdx = 0
    /\ validated = <<>>
    /\ warnings = <<>>
    /\ attempted = <<>>
    /\ embedder = FALSE
    /\ start = 0
    /\ all_embeddings = <<>>
    /\ embedLog = <<>>
    /\ ingestLog = <<>>
    /\ datapoints = <<>>
    /\ nextId = 0
    /\ store = [has_index |-> <<>>, create_index |-> <<>>, upsert |-> <<>>]
    /\ error = NoError
    /\ body = PyNone
    /\ text = <<>>
    /\ text2 = <<>>
    /\ tpc = "idle"

Next ==
    \/ LoadRegistry
    \/ RegistryRow
    \/ GlobNext
    \/ GenericRow
    \/ CheckRecords
    \/ ConstructEmbedder
    \/ EmbedBatch
    \/ BuildDatapoints
    \/ HasIndex
    \/ CreateIndex
    \/ Upsert

Spec == Init /\ [][Next]_vars

\* _prepare_text on its own: a body, prepared, and the result prepared again.
InitText ==
    /\ pc = "idle"
    /\ disk = [regExists |-> FALSE, regRows |-> 0, globFiles |-> 0,
               globRows |-> 0, nan |-> "none",
               bodyOdd |-> [none |-> TRUE, len |-> 0, pat |-> 1],
               bodyEven |-> [none |-> FALSE, len |-> 0, pat |-> 1]]
    /\ docs = <<>>
    /\ globIdx = 0
    /\ validated = <<>>
    /\ warnings = <<>>
    /\ attempted = <<>>
    /\ embedder = FALSE
    /\ start = 0
    /\ all_embeddings = <<>>
    /\ embedLog = <<>>
    /\ ingestLog = <<>>
    /\ datapoints = <<>>
    /\ nextId = 0
    /\ store = [has_index |-> <<>>, create_index |-> <<>>, upsert |-> <<>>]
    /\ error = NoError
    /\ body \in Bodies
    /\ text = <<>>
    /\ text2 = <<>>
    /\ tpc = "body"

PrepareText ==
    /\ tpc = "body"
    /\ text' = _prepare_text(body)
    /\ tpc' = "prepared"
    /\ UNCHANGED << pc, disk, error, body, text2 >>
    /\ UNCHANGED << loadVars, embedVars, uploadVars >>

PrepareAgain ==
    /\ tpc = "prepared"
    /\ text2' = _prepare_text(Str(text))
    /\ tpc' = "again"
    /\ UNCHANGED << pc, disk, error, body, text >>
    /\ UNCHANGED << loadVars, embedVars, uploadVars >>

NextText == PrepareText \/ PrepareAgain

SpecText == InitText /\ [][NextText]_vars

\* ------------------------------------------------------------------ claims
LoadReturned ==
    pc \in {"loaded", "construct", "batch", "build", "has_index",
            "create_index", "upsert", "done", "aborted"}

LoopFinished ==
    \/ pc \in {"build", "has_index", "create_index", "upsert", "done"}
    \/ pc = "aborted" /\ error.at \in {"create_index", "upsert"}

UploadEnded ==
    \/ pc = "done" /\ Len(validated) > 0
    \/ pc = "aborted" /\ error.at \in {"create_index", "upsert"}

\* The dict record construction was attempted on, for a row of the disk.
DocOf(src) ==
    IF src.file = 0
    THEN RowDict(disk, 0, src.row)
    ELSE CSVLoaderLoad(disk, src.file)[src.row].metadata

Count(log, src) == Cardinality({ i \in 1..Len(log) : log[i].src = src })

AllEmbedOk == \A i \in 1..Len(embedLog) : embedLog[i].svc = "ok"

\* The start of the batch that holds position p of the record list.
BatchStartOf(p) == ((p - 1) \div BATCH_SIZE) * BATCH_SIZE

BatchSucceeded(s) ==
    \E i \in 1..Len(embedLog) : embedLog[i].start = s /\ embedLog[i].svc = "ok"

\* Positions of the records of the batches whose embedding call succeeded.
SurvivingRecords ==
    SelectSeq([p \in 1..Len(validated) |-> p],
              LAMBDA p : BatchSucceeded(BatchStartOf(p)))

\* C1: when every embedding call succeeds with one vector per text, the
\* uploader receives one datapoint per loaded record, with pairwise distinct
\* ids, each carrying the metadata of the record whose body was embedded into
\* its vector.
DatapointPerRecord ==
    (Len(store.upsert) > 0 /\ AllEmbedOk) =>
        LET dps == store.upsert[1]
        IN  /\ Len(dps) = Len(validated)
            /\ \A i, j \in 1..Len(dps) : i # j => dps[i].id # dps[j].id
            /\ \A k \in 1..Len(dps) :
                    dps[k].metadata = Metadata(validated[dps[k].src.record])

\* C2: after the batch loop the accumulated vectors are as many as the records
\* of the batches whose embedding call succeeded, and the k-th vector comes
\* from the k-th of those records.
VectorsMatchSurvivingRecords ==
    LoopFinished =>
        /\ Len(all_embeddings) = Len(SurvivingRecords)
        /\ \A k \in 1..Min(Len(all_embeddings), Len(SurvivingRecords)) :
                all_embeddings[k].src.record = SurvivingRecords[k]

\* The data rows of the files load_csv_records loads.
TotalRows ==
    (IF disk.regExists THEN disk.regRows ELSE 0) + disk.globFiles * disk.globRows

\* C3: the loader returns as many records as the loaded files have data rows,
\* minus the rows skipped for failing validation.
LoaderLengthIsRowsMinusSkipped ==
    LoadReturned => Len(validated) = TotalRows - Len(warnings)

\* C4: in the registry path and in the generic path, a row whose record
\* construction fails is never in the validated list and has exactly one skip
\* warning; every validated record comes from a row that validates.
InvalidRowSkippedOnce ==
    /\ \A i \in 1..Len(attempted) :
            ~Validates(DocOf(attempted[i])) =>
                /\ \A k \in 1..Len(validated) : validated[k].src # attempted[i]
                /\ Count(warnings, attempted[i]) = 1
    /\ \A k \in 1..Len(validated) : Validates(DocOf(validated[k].src))

InvalidRowSkippedOnceWitness ==
    /\ pc = "loaded"
    /\ Len(validated) > 0
    /\ \E i, j \in 1..Len(attempted) :
            /\ attempted[i].file = 0
            /\ ~Validates(DocOf(attempted[i]))
            /\ attempted[j].file > 0
            /\ ~Validates(DocOf(attempted[j]))
            /\ Count(warnings, attempted[i]) = 1
            /\ Count(warnings, attempted[j]) = 1

\* C5: when the loader returns no record, ingest ends normally: the embedding
\* client is never constructed or called and no vector-store operation is
\* called.
NoRecordsNoCalls ==
    (LoadReturned /\ Len(validated) = 0) =>
        /\ pc \in {"loaded", "done"}
        /\ error = NoError
        /\ ~embedder
        /\ embedLog = <<>>
        /\ store.has_index = <<>>
        /\ store.create_index = <<>>
        /\ store.upsert = <<>>

NoRecordsNoCallsWitness ==
    /\ pc = "done"
    /\ Len(validated) = 0
    /\ Len(attempted) > 0
    /\ ~embedder
    /\ store.upsert = <<>>

\* C6: create_index is called only after has_index returned false; when it
\* returned true, create_index is never called and upsert is called exactly
\* once, with all the datapoints.
CreateOnlyWhenAbsent ==
    /\ Len(store.has_index) <= 1
    /\ (pc = "create_index" \/ Len(store.create_index) > 0) =>
            store.has_index = << FALSE >>
    /\ (store.has_index = << TRUE >> /\ UploadEnded) =>
            /\ store.create_index = <<>>
            /\ store.upsert = << datapoints >>

CreateOnlyWhenAbsentWitness ==
    /\ pc = "done"
    /\ store.has_index = << TRUE >>
    /\ store.create_index = <<>>
    /\ Len(store.upsert) = 1
    /\ Len(store.upsert[1]) > 1

\* C7: the prepared text is at most MAX_BODY_CHARS long and a prefix of the
\* body; a body of at most MAX_BODY_CHARS characters is returned unchanged
\* (None as the empty text); preparing the prepared text returns it unchanged.
TruncationIdempotent ==
    /\ tpc \in {"prepared", "again"} =>
            /\ Len(text) <= MAX_BODY_CHARS
            /\ Len(text) <= Len(body.chars)
            /\ \A i \in 1..Len(text) : text[i] = body.chars[i]
            /\ Len(body.chars) <= MAX_BODY_CHARS => Len(text) = Len(body.chars)
    /\ tpc = "again" => text2 = text

TruncationIdempotentWitness ==
    /\ tpc = "again"
    /\ Len(body.chars) > MAX_BODY_CHARS
    /\ Len(text) = MAX_BODY_CHARS
    /\ text2 = text

\* C8: a batch whose embedding call fails in the service raises nothing out of
\* embed, and every later batch is still submitted to the embedding client.
EmbedFailureNeverAborts ==
    \A i \in 1..Len(embedLog) :
        embedLog[i].svc = "fail" =>
            /\ ~embedLog[i].raised
            /\ ~(pc = "aborted" /\ error.at = "embed")
            /\ LoopFinished =>
                    \A p \in 1..Len(validated) :
                        BatchStartOf(p) > embedLog[i].start =>
                            \E j \in 1..Len(embedLog) :
                                embedLog[j].start = BatchStartOf(p)

\* C9: embed is never called with an empty list of texts.
NeverEmbedsEmptyList ==
    \A i \in 1..Len(embedLog) : embedLog[i].texts > 0

\* C10: with at least one loaded record, index creation is reached only with
\* a non-empty datapoint list, and the run does not abort there with an
\* unhandled IndexError.
CreateIndexHasDatapoints ==
    Len(validated) > 0 =>
        /\ pc = "create_index" => Len(datapoints) > 0
        /\ ~(pc = "aborted" /\ error = [type |-> "IndexError", at |-> "create_index"])

====
